---- MODULE Spec2Model ----
(***************************************************************************)
(* Model of the Supreme Court case-status scraper (src/main.py):           *)
(*   - the text helpers clean_header, solve_expression, process_table_data *)
(*   - the CAPTCHA retry controller retry_captcha_process and the case     *)
(*     extraction process_table / judgement_orders                         *)
(*   - the concurrent PDF download, sort and merge of judgement_orders     *)
(*   - the per-year driver loop of __main__                                *)
(* Texts are sequences of one-character strings.                           *)
(***************************************************************************)
EXTENDS Integers, Sequences, FiniteSets, TLC

(***************************************************************************)
(* Bounds of the model                                                     *)
(***************************************************************************)
\* longest header label given to clean_header
MaxLen == 4
\* most header cells, most cells of one row and most rows of a raw table
MaxCols == 2
MaxCells == 3
MaxRows == 2
\* most document links of one judgment-orders table (besides LongBatch)
MaxLinks == 3
\* highest diary number the driver looks up in one year, and most records
\* the record sink takes in one run
MaxDiary == 13
MaxCases == 2
\* longest text given to solve_expression
MaxText == 5

(***************************************************************************)
(* Characters                                                              *)
(***************************************************************************)
UpperCase == <<"A","B","C","D","E","F","G","H","I","J","K","L","M",
               "N","O","P","Q","R","S","T","U","V","W","X","Y","Z">>
LowerCase == <<"a","b","c","d","e","f","g","h","i","j","k","l","m",
               "n","o","p","q","r","s","t","u","v","w","x","y","z">>
Digits == <<"0","1","2","3","4","5","6","7","8","9">>

Range(f) == {f[i] : i \in DOMAIN f}

\* Python's \s and str.strip() whitespace
WhiteSpace == {" ", "\t", "\n"}

\* regex \w: letters, digits and the underscore
IsWordChar(c) == c \in Range(UpperCase) \cup Range(LowerCase) \cup Range(Digits) \cup {"_"}

\* str.lower() on one character
LowerChar(c) ==
    IF c \in Range(UpperCase)
    THEN LowerCase[CHOOSE i \in DOMAIN UpperCase : UpperCase[i] = c]
    ELSE c

\* number of leading whitespace characters of s
RECURSIVE LeadingSpaces(_)
LeadingSpaces(s) ==
    IF s = <<>> \/ Head(s) \notin WhiteSpace THEN 0 ELSE 1 + LeadingSpaces(Tail(s))

RECURSIVE Reverse(_)
Reverse(s) == IF s = <<>> THEN <<>> ELSE Reverse(Tail(s)) \o <<Head(s)>>

\* str.strip(): drop leading and trailing whitespace
Strip(s) ==
    LET a == LeadingSpaces(s)
        b == LeadingSpaces(Reverse(s))
    IN  IF a = Len(s) THEN <<>> ELSE SubSeq(s, a + 1, Len(s) - b)

(***************************************************************************)
(* clean_header (src/main.py 423-435), step by step                        *)
(***************************************************************************)
\* re.sub(r"\s*/\s*", "_|_", header): leftmost greedy, non-overlapping
RECURSIVE SubSlash(_)
SubSlash(s) ==
    IF s = <<>> THEN <<>>
    ELSE LET k == LeadingSpaces(s)
         IN  IF k < Len(s) /\ s[k + 1] = "/"
             THEN LET rest == SubSeq(s, k + 2, Len(s))
                      j == LeadingSpaces(rest)
                  IN  <<"_", "|", "_">> \o SubSlash(SubSeq(rest, j + 1, Len(rest)))
             ELSE <<Head(s)>> \o SubSlash(Tail(s))

\* regex \b between positions p-1 and p of s
WordBoundary(s, p) ==
    LET before == p - 1 >= 1 /\ p - 1 <= Len(s) /\ IsWordChar(s[p - 1])
        after  == p >= 1 /\ p <= Len(s) /\ IsWordChar(s[p])
    IN  before # after

\* length of the match of \bno\.?\b (IGNORECASE) starting at position i, 0 if none
MatchNo(s, i) ==
    IF /\ i + 1 <= Len(s)
       /\ WordBoundary(s, i)
       /\ LowerChar(s[i]) = "n"
       /\ LowerChar(s[i + 1]) = "o"
    THEN IF i + 2 <= Len(s) /\ s[i + 2] = "." /\ WordBoundary(s, i + 3) THEN 3
         ELSE IF WordBoundary(s, i + 2) THEN 2
         ELSE 0
    ELSE 0

\* re.sub(r"\bno\.?\b", "number", header, flags=re.IGNORECASE)
RECURSIVE SubNoFrom(_, _)
SubNoFrom(s, i) ==
    IF i > Len(s) THEN <<>>
    ELSE LET n == MatchNo(s, i)
         IN  IF n > 0
             THEN <<"n", "u", "m", "b", "e", "r">> \o SubNoFrom(s, i + n)
             ELSE <<s[i]>> \o SubNoFrom(s, i + 1)

SubNo(s) == SubNoFrom(s, 1)

\* header.lower()
Lower(s) == [i \in DOMAIN s |-> LowerChar(s[i])]

\* re.sub(r"[^a-z0-9|_ ]", "", header)
RECURSIVE DropSpecial(_)
DropSpecial(s) ==
    IF s = <<>> THEN <<>>
    ELSE IF Head(s) \in Range(LowerCase) \cup Range(Digits) \cup {"|", "_", " "}
         THEN <<Head(s)>> \o DropSpecial(Tail(s))
         ELSE DropSpecial(Tail(s))

\* header.replace(" ", "_")
SpacesToUnderscores(s) == [i \in DOMAIN s |-> IF s[i] = " " THEN "_" ELSE s[i]]

\* re.sub(r"_+", "_", header)
RECURSIVE CollapseUnderscores(_)
CollapseUnderscores(s) ==
    IF Len(s) < 2 THEN s
    ELSE IF s[1] = "_" /\ s[2] = "_" THEN CollapseUnderscores(Tail(s))
         ELSE <<Head(s)>> \o CollapseUnderscores(Tail(s))

\* header.strip("_")
RECURSIVE LeadingUnderscores(_)
LeadingUnderscores(s) ==
    IF s = <<>> \/ Head(s) # "_" THEN 0 ELSE 1 + LeadingUnderscores(Tail(s))

StripUnderscores(s) ==
    LET a == LeadingUnderscores(s)
        b == LeadingUnderscores(Reverse(s))
    IN  IF a = Len(s) THEN <<>> ELSE SubSeq(s, a + 1, Len(s) - b)

clean_header(header) ==
    StripUnderscores(
      CollapseUnderscores(
        SpacesToUnderscores(
          DropSpecial(
            Lower(
              SubNo(
                SubSlash(header)))))))

clean_headers(headers) == [i \in DOMAIN headers |-> clean_header(headers[i])]

(***************************************************************************)
(* solve_expression (src/main.py 230-246)                                  *)
(***************************************************************************)
\* str.split(sep) for a one-character separator: the pieces between separators
RECURSIVE SplitFrom(_, _, _)
SplitFrom(s, sep, cur) ==
    IF s = <<>> THEN <<cur>>
    ELSE IF Head(s) = sep THEN <<cur>> \o SplitFrom(Tail(s), sep, <<>>)
         ELSE SplitFrom(Tail(s), sep, Append(cur, Head(s)))

\* str.split(sep, 1): a split at the first separator only
SplitOnce(s, sep) ==
    IF sep \notin Range(s) THEN <<s>>
    ELSE LET i == CHOOSE k \in DOMAIN s : s[k] = sep /\ \A j \in 1..(k - 1) : s[j] # sep
         IN  <<SubSeq(s, 1, i - 1), SubSeq(s, i + 1, Len(s))>>

Split(s, sep) == SplitFrom(s, sep, <<>>)

DigitValue(c) == (CHOOSE i \in DOMAIN Digits : Digits[i] = c) - 1

RECURSIVE DecimalValue(_, _)
DecimalValue(s, acc) ==
    IF s = <<>> THEN acc
    ELSE IF Head(s) = "_" THEN DecimalValue(Tail(s), acc)
         ELSE DecimalValue(Tail(s), 10 * acc + DigitValue(Head(s)))

\* the literals int() accepts after the sign: digits, single underscores between digits
IsDecimalLiteral(s) ==
    /\ s # <<>>
    /\ \A i \in DOMAIN s : s[i] \in Range(Digits) \cup {"_"}
    /\ s[1] # "_" /\ s[Len(s)] # "_"
    /\ \A i \in 1..(Len(s) - 1) : ~(s[i] = "_" /\ s[i + 1] = "_")

\* int(text): ok = FALSE stands for the ValueError
ParseInt(text) ==
    LET s    == Strip(text)
        sign == IF s # <<>> /\ s[1] \in {"+", "-"} THEN s[1] ELSE ""
        body == IF sign = "" THEN s ELSE Tail(s)
    IN  IF IsDecimalLiteral(body)
        THEN [ok |-> TRUE,
              val |-> IF sign = "-" THEN 0 - DecimalValue(body, 0) ELSE DecimalValue(body, 0)]
        ELSE [ok |-> FALSE, val |-> 0]

\* ok = FALSE is the returned string "Error evaluating expression: ..."
ParseFailure == [ok |-> FALSE, val |-> 0]

solve_expression(text) ==
    LET hasPlus  == "+" \in Range(text)
        parts    == IF hasPlus THEN Split(text, "+") ELSE Split(text, "-")
        operator == IF hasPlus THEN "+" ELSE "-"
        operands == [i \in DOMAIN parts |-> Strip(parts[i])]
    IN  IF Len(operands) # 2 THEN ParseFailure
        ELSE LET operand1 == ParseInt(operands[1])
                 operand2 == ParseInt(operands[2])
             IN  IF ~operand1.ok \/ ~operand2.ok THEN ParseFailure
                 ELSE [ok |-> TRUE,
                       val |-> IF operator = "+" THEN operand1.val + operand2.val
                                                 ELSE operand1.val - operand2.val]

(***************************************************************************)
(* process_table_data (src/main.py 445-468)                                *)
(***************************************************************************)
\* Python's None as a cell value; a text is a sequence of single characters
NoneValue == <<"None">>

\* the result of extract_table_details when it returns None
NoData == [missing |-> TRUE, header |-> <<>>, rows |-> <<>>]

\* row[: n] followed by the padding with "" up to n cells
FitCells(row, n) ==
    [i \in 1..n |-> IF i <= Len(row) THEN row[i] ELSE <<>>]

\* cell.strip() if cell else None
CellValue(cell) == IF cell # <<>> THEN Strip(cell) ELSE NoneValue

\* {hdr: value for hdr, cell in zip(cleaned_headers, cells)}: a later pair
\* with the same key replaces the earlier one
RowRecord(cleaned_headers, cells) ==
    [hdr \in Range(cleaned_headers) |->
        LET last == CHOOSE i \in DOMAIN cleaned_headers :
                        /\ cleaned_headers[i] = hdr
                        /\ \A j \in DOMAIN cleaned_headers :
                               cleaned_headers[j] = hdr => j <= i
        IN  CellValue(cells[last])]

RECURSIVE ProcessRows(_, _)
ProcessRows(cleaned_headers, rows) ==
    IF rows = <<>> THEN <<>>
    ELSE IF Head(rows) = <<>>
         THEN ProcessRows(cleaned_headers, Tail(rows))
         ELSE <<RowRecord(cleaned_headers, FitCells(Head(rows), Len(cleaned_headers)))>>
              \o ProcessRows(cleaned_headers, Tail(rows))

process_table_data(data) ==
    IF data.missing THEN <<>>
    ELSE LET cleaned_headers == IF data.header # <<>> THEN clean_headers(data.header) ELSE <<>>
         IN  IF cleaned_headers = <<>> THEN <<>>
             ELSE ProcessRows(cleaned_headers, data.rows)

(***************************************************************************)
(* extract_table_data (src/main.py 351-368), reached from                  *)
(* extract_table_details (392-420).  A table element is the texts of the   *)
(* th cells and of the td cells of its thead, whether it has a tbody, and  *)
(* the texts of the td cells of each tr of the tbody.                      *)
(***************************************************************************)
\* soup.find("table", class_=table_class) found nothing
NoSource == [found |-> FALSE, th |-> <<>>, td |-> <<>>, tbody |-> FALSE, rows |-> <<>>]

\* [c.get_text(strip=True) for c in cells if c.get_text(strip=True)]
NonBlankTexts(cells) ==
    SelectSeq([i \in DOMAIN cells |-> Strip(cells[i])], LAMBDA t : t # <<>>)

\* the loop over tbody.find_all("tr")
RECURSIVE ExtractRows(_)
ExtractRows(trs) ==
    IF trs = <<>> THEN <<>>
    ELSE LET cells == NonBlankTexts(Head(trs))
         IN  (IF cells # <<>> THEN <<cells>> ELSE <<>>) \o ExtractRows(Tail(trs))

extract_table_data(t) ==
    LET th_header == NonBlankTexts(t.th)
        header    == IF th_header = <<>> THEN NonBlankTexts(t.td) ELSE th_header
        rows      == IF t.tbody THEN ExtractRows(t.rows) ELSE <<>>
    IN  [missing |-> FALSE, header |-> header, rows |-> rows]

\* lines 406-415: None when the page has no such table
extract_table_details(t) ==
    IF ~t.found THEN NoData ELSE extract_table_data(t)

(***************************************************************************)
(* Values of a case lookup                                                 *)
(***************************************************************************)
\* a value of the dict `data`: not assigned yet, None, or a list (for the
\* details block and the merged URL: a plain value, rows left empty)
Unset             == [set |-> FALSE, none |-> TRUE, rows |-> <<>>]
NoneSection       == [set |-> TRUE, none |-> TRUE, rows |-> <<>>]
ListSection(rows) == [set |-> TRUE, none |-> FALSE, rows |-> rows]

\* the table sections of process_table, in the order of lines 292-313
Sections == <<"earlier_court_details", "listing_date",
              "interlocutory_application_documents", "notices", "defects",
              "mention_memo", "office_report", "tagged_matters">>

\* keys of the record process_table builds
RecordKeys == Range(Sections) \cup {"details", "judgement_orders", "merge_pdf_url"}

\* the dict `data` before process_table has put anything in it
NoRecord == [k \in RecordKeys |-> Unset]

\* what a function returned: None, False or a case record
ReturnNone      == [kind |-> "None", data |-> NoRecord]
ReturnFalse     == [kind |-> "False", data |-> NoRecord]
ReturnRecord(d) == [kind |-> "record", data |-> d]
\* the call has not returned yet / ended by raising
NotReturned     == [kind |-> "pending", data |-> NoRecord]
Raised          == [kind |-> "raised", data |-> NoRecord]

\* the tuple judgement_orders returns: its length and its three items
NoOrders == [arity |-> 0, table_data |-> "unset", merged_pdf_path |-> "unset",
             folder_path |-> "unset"]

\* the value of a lookup as the driver sees it: None, or the record of a diary number
NoResult == [kind |-> "None", diary |-> 0]
CaseRecord(d) == [kind |-> "record", diary |-> d]

(***************************************************************************)
(* State                                                                   *)
(***************************************************************************)
VARIABLES
    \* HeaderNormalizer: a label and the results of applying clean_header
    label, once, twice, hstep,
    \* TableNormalizer: the raw table and the records process_table_data returns
    \* and, for the section pipeline, the table element found in the page
    table, records, tstep, source,
    \* PdfAcquisitionPipeline: the links, the state of each download task,
    \* what each download_pdf call returned, the order in which they finished,
    \* and the values built after the pool is done
    links, status, results, finishOrder, pdf_files, merged, table_data, pstep,
    \* one case lookup: the frames of retry_captcha_process, the reads made,
    \* the last solve_expression result, the answers typed in, the page state
    \* after the search, the record process_table builds, the value
    \* judgement_orders returned, the working directory, what process_table
    \* returned and what the last finished frame returned
    lpc, stack, configured, reads, result, submitted, exhausted, page,
    data, section, orders, dirExists, tableResult, retval,
    \* the driver loop of __main__: its position, its three variables, the
    \* value of the last lookup, the records inserted into the collection,
    \* and the lookups made so far in the current year
    dpc, from_year, current_diary_number, continuous_empty_case, op, sink, yearLog,
    \* CaptchaSolver: the text read from the image, what solve_expression
    \* returned for it, and what the controller typed into the answer field
    captchaText, solved, keysSent, sstep

headerVars == <<label, once, twice, hstep>>
tableVars  == <<table, records, tstep, source>>
pdfVars    == <<links, status, results, finishOrder, pdf_files, merged, table_data, pstep>>
lookupVars == <<lpc, stack, configured, reads, result, submitted, exhausted, page,
                data, section, orders, dirExists, tableResult, retval>>
driverVars == <<dpc, from_year, current_diary_number, continuous_empty_case, op,
                sink, yearLog>>
solveVars  == <<captchaText, solved, keysSent, sstep>>
vars == <<headerVars, tableVars, pdfVars, lookupVars, driverVars, solveVars>>

\* all sequences over S of length at most n
SeqsUpTo(S, n) == UNION {[1..k -> S] : k \in 0..n}

\* a component that takes no part in a specification stays in its rest state
HeaderOff == label = <<>> /\ once = <<>> /\ twice = <<>> /\ hstep = "off"
TableOff  == table = NoData /\ records = <<>> /\ tstep = "off" /\ source = NoSource
PdfOff    ==
    /\ links = <<>> /\ status = <<>> /\ results = <<>> /\ finishOrder = <<>>
    /\ pdf_files = <<>> /\ merged = <<>> /\ table_data = <<>> /\ pstep = "off"

LookupOff ==
    /\ lpc = "off" /\ stack = <<>> /\ configured = 0 /\ reads = 0
    /\ result = ParseFailure /\ submitted = <<>> /\ exhausted = FALSE
    /\ page = "none" /\ data = NoRecord /\ section = 0 /\ orders = NoOrders
    /\ dirExists = FALSE /\ tableResult = NotReturned /\ retval = NotReturned

SolveOff ==
    captchaText = <<>> /\ solved = ParseFailure /\ keysSent = <<>> /\ sstep = "off"

DriverOff ==
    /\ dpc = "off" /\ from_year = 0 /\ current_diary_number = 0
    /\ continuous_empty_case = 0 /\ op = NoResult /\ sink = <<>> /\ yearLog = <<>>

(***************************************************************************)
(* HeaderNormalizer: clean_header applied to a label and to its own result *)
(***************************************************************************)
HeaderAlphabet == {"n", "o", "N", ".", " ", "/", "_", "|", "a"}

InitHeader ==
    /\ label \in SeqsUpTo(HeaderAlphabet, MaxLen)
    /\ once = <<>> /\ twice = <<>> /\ hstep = "input"
    /\ TableOff /\ PdfOff /\ LookupOff /\ DriverOff /\ SolveOff

CleanOnce ==
    /\ hstep = "input"
    /\ once' = clean_header(label)
    /\ hstep' = "once"
    /\ UNCHANGED <<label, twice, tableVars, pdfVars, lookupVars, driverVars, solveVars>>

CleanTwice ==
    /\ hstep = "once"
    /\ twice' = clean_header(once)
    /\ hstep' = "twice"
    /\ UNCHANGED <<label, once, tableVars, pdfVars, lookupVars, driverVars, solveVars>>

NextHeader == CleanOnce \/ CleanTwice

SpecHeader == InitHeader /\ [][NextHeader]_vars

(***************************************************************************)
(* TableNormalizer: process_table_data applied to a raw table              *)
(***************************************************************************)
\* header cells as extract_table_data delivers them (never the empty text)
HeaderLabels == {<<"A">>, <<"a">>, <<"#">>}
\* cells of a row
CellTexts == {<<>>, <<" ">>, <<" ", "x">>}

RawTables ==
    {NoData} \cup
    {[missing |-> FALSE, header |-> h, rows |-> r] :
        h \in SeqsUpTo(HeaderLabels, MaxCols),
        r \in SeqsUpTo(SeqsUpTo(CellTexts, MaxCells), MaxRows)}

InitTable ==
    /\ table \in RawTables
    /\ records = <<>> /\ tstep = "input" /\ source = NoSource
    /\ HeaderOff /\ PdfOff /\ LookupOff /\ DriverOff /\ SolveOff

ProcessTableData ==
    /\ tstep = "input"
    /\ records' = process_table_data(table)
    /\ tstep' = "done"
    /\ UNCHANGED <<table, source, headerVars, pdfVars, lookupVars, driverVars, solveVars>>

NextTable == ProcessTableData

SpecTable == InitTable /\ [][NextTable]_vars

(***************************************************************************)
(* The section pipeline (src/main.py 471-515): extract_table_details       *)
(* followed by process_table_data on what it returned.                     *)
(***************************************************************************)
\* texts of the cells of a thead
TheadTexts == {<<"A">>, <<"B">>, <<" ">>}
\* texts of the td cells of a tbody row
TdTexts == {<<" ">>, <<"x", " ">>}

SourceTables ==
    {NoSource} \cup
    {[found |-> TRUE, th |-> h, td |-> d, tbody |-> b, rows |-> r] :
        h \in SeqsUpTo(TheadTexts, MaxCols),
        d \in SeqsUpTo({<<"C">>}, 1),
        b \in {TRUE},
        r \in SeqsUpTo(SeqsUpTo(TdTexts, MaxCells), MaxRows)}
    \cup
    {[found |-> TRUE, th |-> h, td |-> <<>>, tbody |-> FALSE, rows |-> <<>>] :
        h \in SeqsUpTo(TheadTexts, MaxCols)}

InitPipeline ==
    /\ source \in SourceTables
    /\ table = NoData /\ records = <<>> /\ tstep = "source"
    /\ HeaderOff /\ PdfOff /\ LookupOff /\ DriverOff /\ SolveOff

\* data = extract_table_details(driver, table_class, timeout)
ExtractTableDetails ==
    /\ tstep = "source"
    /\ table' = extract_table_details(source)
    /\ tstep' = "input"
    /\ UNCHANGED <<records, source, headerVars, pdfVars, lookupVars, driverVars, solveVars>>

NextPipeline == ExtractTableDetails \/ ProcessTableData

SpecPipeline == InitPipeline /\ [][NextPipeline]_vars

(***************************************************************************)
(* PdfAcquisitionPipeline: judgement_orders (src/main.py 580-598) with     *)
(* download_pdf, extract_date_from_filename and merge_pdfs.                *)
(* A file name is a sequence of pieces: the marker "Order_", the pieces of *)
(* a date text, the extension ".pdf", or other text.                       *)
(***************************************************************************)
max_workers == 5

\* a row of the table without an <a> element (row.find("a") is None)
NoLink == <<>>

\* last path segments of the links' URLs
FileNames == {
    <<"Order_", "20", "-", "Mar", "-", "2020", ".pdf">>,
    <<"Order_", "05", "-", "Jan", "-", "2021", ".pdf">>,
    <<"Order_", "31", "-", "Feb", "-", "2021", ".pdf">>,
    <<"notice", ".pdf">> }

\* a table with more rows than the pool has workers
LongBatch == <<
    <<"Order_", "05", "-", "Jan", "-", "2021", ".pdf">>,
    <<"notice", ".pdf">>,
    <<"Order_", "20", "-", "Mar", "-", "2020", ".pdf">>,
    NoLink,
    <<"Order_", "05", "-", "Jan", "-", "2021", ".pdf">>,
    <<"Order_", "20", "-", "Mar", "-", "2020", ".pdf">> >>

\* download_pdf returned None
NoPath == [link |-> 0, name |-> <<>>]

\* the path download_pdf writes: a fresh uuid4 hex before the URL's last segment
\* (the link index stands for the uniqueness of the uuid)
SavedPath(i, name) == [link |-> i, name |-> <<"uuid">> \o name]

DayNumber   == ("05" :> 5 @@ "20" :> 20 @@ "31" :> 31)
MonthNumber == ("Jan" :> 1 @@ "Feb" :> 2 @@ "Mar" :> 3)
YearNumber  == ("2020" :> 2020 @@ "2021" :> 2021)

DaysInMonth(m, y) ==
    IF m = 2 THEN (IF y % 4 = 0 /\ (y % 100 # 0 \/ y % 400 = 0) THEN 29 ELSE 28)
    ELSE IF m \in {4, 6, 9, 11} THEN 30 ELSE 31

\* datetime.min, as <<year, month, day>>
DatetimeMin == <<1, 1, 1>>

\* the pieces after the last occurrence of the marker (all of them if there is none)
RECURSIVE AfterLastMarker(_)
AfterLastMarker(name) ==
    IF "Order_" \notin Range(name) THEN name ELSE AfterLastMarker(Tail(name))

\* .replace(".pdf", "")
RECURSIVE DropExtension(_)
DropExtension(name) ==
    IF name = <<>> THEN <<>>
    ELSE IF Head(name) = ".pdf" THEN DropExtension(Tail(name))
         ELSE <<Head(name)>> \o DropExtension(Tail(name))

\* datetime.strptime(date_part, "%d-%b-%Y"); ok = FALSE stands for the ValueError
Strptime(date_part) ==
    IF /\ Len(date_part) = 5
       /\ date_part[1] \in DOMAIN DayNumber
       /\ date_part[2] = "-"
       /\ date_part[3] \in DOMAIN MonthNumber
       /\ date_part[4] = "-"
       /\ date_part[5] \in DOMAIN YearNumber
       /\ DayNumber[date_part[1]] <=
              DaysInMonth(MonthNumber[date_part[3]], YearNumber[date_part[5]])
    THEN [ok |-> TRUE,
          date |-> <<YearNumber[date_part[5]], MonthNumber[date_part[3]], DayNumber[date_part[1]]>>]
    ELSE [ok |-> FALSE, date |-> DatetimeMin]

extract_date_from_filename(path) ==
    LET date_part == DropExtension(AfterLastMarker(path.name))
        parsed == Strptime(date_part)
    IN  IF parsed.ok THEN parsed.date ELSE DatetimeMin

\* datetime < datetime
DateLess(d1, d2) ==
    \/ d1[1] < d2[1]
    \/ d1[1] = d2[1] /\ d1[2] < d2[2]
    \/ d1[1] = d2[1] /\ d1[2] = d2[2] /\ d1[3] < d2[3]

\* list.sort(key=...) is stable: an element goes before the first one with a greater key
RECURSIVE InsertByDate(_, _)
InsertByDate(sorted, x) ==
    IF sorted = <<>> THEN <<x>>
    ELSE IF DateLess(extract_date_from_filename(x), extract_date_from_filename(Head(sorted)))
         THEN <<x>> \o sorted
         ELSE <<Head(sorted)>> \o InsertByDate(Tail(sorted), x)

RECURSIVE SortByDate(_)
SortByDate(files) ==
    IF files = <<>> THEN <<>>
    ELSE InsertByDate(SortByDate(SubSeq(files, 1, Len(files) - 1)), files[Len(files)])

\* the same results taken in the order in which the downloads finished
ResultsAsCompleted(res, order) == [k \in DOMAIN order |-> res[order[k]]]

\* executor.map yields the results in the order of the links
ResultsInMapOrder(res, order) == res

\* list(filter(None, ...))
RECURSIVE FilterNone(_)
FilterNone(res) ==
    IF res = <<>> THEN <<>>
    ELSE IF Head(res) = NoPath THEN FilterNone(Tail(res))
         ELSE <<Head(res)>> \o FilterNone(Tail(res))

\* datetime.strftime(date, "%d/%m/%Y"): day, month, year
Strftime(date) == <<date[3], date[2], date[1]>>

\* merge_pdfs: the files whose pages are written, in the order given
RECURSIVE MergedFiles(_, _)
MergedFiles(files, unreadable) ==
    IF files = <<>> THEN <<>>
    ELSE IF Head(files).link \in unreadable THEN MergedFiles(Tail(files), unreadable)
         ELSE <<Head(files)>> \o MergedFiles(Tail(files), unreadable)

InitPdf ==
    /\ links \in SeqsUpTo(FileNames \cup {NoLink}, MaxLinks) \cup {LongBatch}
    /\ status = [i \in DOMAIN links |-> "queued"]
    /\ results = [i \in DOMAIN links |-> NoPath]
    /\ finishOrder = <<>>
    /\ pdf_files = <<>> /\ merged = <<>> /\ table_data = <<>>
    /\ pstep = "downloading"
    /\ HeaderOff /\ TableOff /\ LookupOff /\ DriverOff /\ SolveOff

\* a free worker of the pool takes the next link of the work queue
StartDownload ==
    /\ pstep = "downloading"
    /\ Cardinality({j \in DOMAIN links : status[j] = "running"}) < max_workers
    /\ \E i \in DOMAIN links :
        /\ status[i] = "queued"
        /\ \A j \in 1..(i - 1) : status[j] # "queued"
        /\ status' = [status EXCEPT ![i] = "running"]
    /\ UNCHANGED <<links, results, finishOrder, pdf_files, merged, table_data, pstep>>
    /\ UNCHANGED <<headerVars, tableVars, lookupVars, driverVars, solveVars>>

\* download_pdf(link, folder_path) ends: the saved path, or None for a row
\* without link and for a failed request
FinishDownload ==
    /\ pstep = "downloading"
    /\ \E i \in DOMAIN links :
        /\ status[i] = "running"
        /\ \E fetched \in BOOLEAN :
            results' = [results EXCEPT ![i] =
                          IF links[i] = NoLink \/ ~fetched THEN NoPath
                          ELSE SavedPath(i, links[i])]
        /\ status' = [status EXCEPT ![i] = "done"]
        /\ finishOrder' = Append(finishOrder, i)
    /\ UNCHANGED <<links, pdf_files, merged, table_data, pstep>>
    /\ UNCHANGED <<headerVars, tableVars, lookupVars, driverVars, solveVars>>

\* lines 583-598 once every task of the pool is done
SortAndMerge ==
    /\ pstep = "downloading"
    /\ \A i \in DOMAIN links : status[i] = "done"
    /\ LET files == FilterNone(ResultsInMapOrder(results, finishOrder))
       IN  IF files = <<>>
           THEN /\ pdf_files' = <<>> /\ merged' = <<>> /\ table_data' = <<>>
           ELSE /\ pdf_files' = SortByDate(files)
                /\ \E unreadable \in SUBSET {files[k].link : k \in DOMAIN files} :
                       merged' = MergedFiles(pdf_files', unreadable)
                /\ table_data' =
                       [k \in DOMAIN pdf_files' |->
                           [order_date |-> Strftime(extract_date_from_filename(pdf_files'[k])),
                            url |-> pdf_files'[k]]]
    /\ pstep' = "returned"
    /\ UNCHANGED <<links, status, results, finishOrder>>
    /\ UNCHANGED <<headerVars, tableVars, lookupVars, driverVars, solveVars>>

NextPdf == StartDownload \/ FinishDownload \/ SortAndMerge

SpecPdf == InitPdf /\ [][NextPdf]_vars

(***************************************************************************)
(* One case lookup: retry_captcha_process (src/main.py 137-199) called by  *)
(* process_case_details_by_diary_number / _by_case_number, then            *)
(* process_table (249-331) and judgement_orders (557-602).                 *)
(***************************************************************************)
\* default of the parameter max_attempts
DefaultMaxAttempts == 20

\* values of max_attempts a call of retry_captcha_process is given
MaxAttemptsInputs == {2, DefaultMaxAttempts, DefaultMaxAttempts + 1}

\* the text extract_text_from_image returns when the read fails
FailedToRead == <<"F","a","i","l","e","d"," ","t","o"," ","r","e","a","d"," ",
                  "t","e","x","t"," ","f","r","o","m"," ","i","m","a","g","e",".">>

\* texts the image-to-text capability delivers
OcrTexts == {
    <<"1", "2", " ", "+", " ", "7">>,
    <<"2", "0", " ", "-", " ", "3", "5">>,
    <<"1", "2", " ", "*", " ", "7">>,
    <<"7", " ", "+">>,
    FailedToRead }

\* what the page shows after the search is submitted: the result table, the
\* "notfound" block, or neither of them (wrong answer, slow page)
PageStates == {"results", "notfound", "neither"}

\* the raw table a section of the detail panel holds
SampleTable == [missing |-> FALSE,
                header |-> << <<"D", "a", "t", "e">>, <<"N", "o", ".">> >>,
                rows |-> << << <<"x">>, <<"1">> >> >>]

\* lines 181-183: EC.visibility_of_element_located is called with two
\* positional arguments where it takes one locator tuple, so building the
\* condition raises TypeError whatever the page shows; the wait never runs
NotFoundWait(p) == "TypeError"

\* the frame on top ends and hands v to its caller
ReturnFromFrame(v) ==
    /\ stack' = SubSeq(stack, 1, Len(stack) - 1)
    /\ retval' = v
    /\ lpc' = IF Len(stack) = 1 THEN "returned" ELSE "resume"

\* the frame on top goes on at the given place
Continue(place) ==
    /\ lpc' = place
    /\ UNCHANGED <<stack, retval>>

InitLookup ==
    /\ lpc = "call" /\ stack = <<>> /\ configured = 0 /\ reads = 0
    /\ result = ParseFailure /\ submitted = <<>> /\ exhausted = FALSE
    /\ page = "none" /\ data = NoRecord /\ section = 0 /\ orders = NoOrders
    /\ dirExists = FALSE /\ tableResult = NotReturned /\ retval = NotReturned
    /\ HeaderOff /\ TableOff /\ PdfOff /\ DriverOff /\ SolveOff

\* lines 137-142: a call retry_captcha_process(driver, wait, max_attempts=n)
\* with attempt = 0; the callers at lines 88 and 114 leave n at its default
CallRetryCaptcha ==
    /\ lpc = "call"
    /\ \E n \in MaxAttemptsInputs :
        /\ configured' = n
        /\ stack' = <<[attempt |-> 0, max_attempts |-> n]>>
    /\ lpc' = "check"
    /\ UNCHANGED <<reads, result, submitted, exhausted, page, data, section,
                   orders, dirExists, tableResult, retval>>
    /\ UNCHANGED <<headerVars, tableVars, pdfVars, driverVars, solveVars>>

\* lines 144-146, the raise being caught at line 197
CheckAttempts ==
    /\ lpc = "check"
    /\ LET top == stack[Len(stack)]
       IN  IF top.attempt >= top.max_attempts
           THEN exhausted' = TRUE /\ ReturnFromFrame(ReturnNone)
           ELSE exhausted' = exhausted /\ Continue("await")
    /\ UNCHANGED <<configured, reads, result, submitted, page, data, section,
                   orders, dirExists, tableResult>>
    /\ UNCHANGED <<headerVars, tableVars, pdfVars, driverVars, solveVars>>

\* lines 148-153: wait for the CAPTCHA image and take the screenshot
AwaitImage ==
    /\ lpc = "await"
    /\ \E present \in BOOLEAN :
        IF present THEN Continue("solve") ELSE ReturnFromFrame(ReturnNone)
    /\ UNCHANGED <<configured, reads, result, submitted, exhausted, page, data,
                   section, orders, dirExists, tableResult>>
    /\ UNCHANGED <<headerVars, tableVars, pdfVars, driverVars, solveVars>>

\* lines 155-162: one read of the CAPTCHA
Solving ==
    /\ lpc = "solve"
    /\ \E text \in OcrTexts : result' = solve_expression(text)
    /\ reads' = reads + 1
    /\ Continue("classify")
    /\ UNCHANGED <<configured, submitted, exhausted, page, data, section,
                   orders, dirExists, tableResult>>
    /\ UNCHANGED <<headerVars, tableVars, pdfVars, driverVars, solveVars>>

\* lines 164-168: parse failure, refresh and call again with attempt + 1;
\* max_attempts is not passed on, the new frame has the default
Refresh ==
    /\ lpc = "classify"
    /\ ~result.ok
    /\ \E clicked \in BOOLEAN :
        IF clicked
        THEN /\ stack' = Append(stack, [attempt |-> stack[Len(stack)].attempt + 1,
                                        max_attempts |-> DefaultMaxAttempts])
             /\ lpc' = "check"
             /\ retval' = retval
        ELSE ReturnFromFrame(ReturnNone)
    /\ UNCHANGED <<configured, reads, result, submitted, exhausted, page, data,
                   section, orders, dirExists, tableResult>>
    /\ UNCHANGED <<headerVars, tableVars, pdfVars, driverVars, solveVars>>

\* line 168 after the inner call has returned: its value is dropped and the
\* function runs to its end, returning None
ResumeAfterRetry ==
    /\ lpc = "resume"
    /\ ReturnFromFrame(ReturnNone)
    /\ UNCHANGED <<configured, reads, result, submitted, exhausted, page, data,
                   section, orders, dirExists, tableResult>>
    /\ UNCHANGED <<headerVars, tableVars, pdfVars, driverVars, solveVars>>

\* lines 169-177: type the answer and press Search
Submit ==
    /\ lpc = "classify"
    /\ result.ok
    /\ \E typed \in BOOLEAN :
        IF typed
        THEN /\ submitted' = Append(submitted, result.val)
             /\ \E p \in PageStates : page' = p
             /\ Continue("probe")
        ELSE /\ UNCHANGED <<submitted, page>>
             /\ ReturnFromFrame(ReturnNone)
    /\ UNCHANGED <<configured, reads, result, exhausted, data, section,
                   orders, dirExists, tableResult>>
    /\ UNCHANGED <<headerVars, tableVars, pdfVars, driverVars, solveVars>>

\* lines 180-186: the wait for the "notfound" block
ProbeNotFound ==
    /\ lpc = "probe"
    /\ IF NotFoundWait(page) = "visible"
       THEN ReturnFromFrame(ReturnFalse)
       ELSE Continue("results")
    /\ UNCHANGED <<configured, reads, result, submitted, exhausted, page, data,
                   section, orders, dirExists, tableResult>>
    /\ UNCHANGED <<headerVars, tableVars, pdfVars, driverVars, solveVars>>

\* lines 188-192: wait for the result table; the timeout is caught at line 194
WaitResults ==
    /\ lpc = "results"
    /\ IF page = "results" THEN Continue("row") ELSE ReturnFromFrame(ReturnNone)
    /\ UNCHANGED <<configured, reads, result, submitted, exhausted, page, data,
                   section, orders, dirExists, tableResult>>
    /\ UNCHANGED <<headerVars, tableVars, pdfVars, driverVars, solveVars>>

\* lines 250-289: the first row of the result table and its detail panel
LocateRow ==
    /\ lpc = "row"
    /\ \E found \in {"no rows", "error", "located"} :
        CASE found = "no rows" ->
                /\ tableResult' = ReturnNone
                /\ ReturnFromFrame(ReturnNone)
                /\ UNCHANGED <<data, section>>
          [] found = "error" ->
                /\ tableResult' = Raised
                /\ ReturnFromFrame(ReturnNone)
                /\ UNCHANGED <<data, section>>
          [] found = "located" ->
                /\ data' = [NoRecord EXCEPT !["details"] = ListSection(<<>>)]
                /\ section' = 1
                /\ Continue("section")
                /\ UNCHANGED tableResult
    /\ UNCHANGED <<configured, reads, result, submitted, exhausted, page,
                   orders, dirExists>>
    /\ UNCHANGED <<headerVars, tableVars, pdfVars, driverVars, solveVars>>

\* lines 292-313 with 392-420 and 471-515: one table section; extract_table_details
\* returns None on any failure
ExtractSection ==
    /\ lpc = "section"
    /\ \E raw \in {NoData, SampleTable} :
        data' = [data EXCEPT ![Sections[section]] =
                    IF Sections[section] = "interlocutory_application_documents" /\ raw.missing
                    THEN NoneSection
                    ELSE ListSection(process_table_data(raw))]
    /\ IF section < Len(Sections)
       THEN section' = section + 1 /\ Continue("section")
       ELSE section' = 0 /\ Continue("orders")
    /\ UNCHANGED <<configured, reads, result, submitted, exhausted, page,
                   orders, dirExists, tableResult>>
    /\ UNCHANGED <<headerVars, tableVars, pdfVars, driverVars, solveVars>>

\* lines 557-602: judgement_orders and the tuple it returns
JudgementOrders ==
    /\ lpc = "orders"
    /\ \E outcome \in {"timeout", "no table", "error after makedirs", "no pdf", "pdfs"} :
        CASE outcome = "timeout" ->
                /\ orders' = [arity |-> 2, table_data |-> "None",
                              merged_pdf_path |-> "None", folder_path |-> "unset"]
                /\ UNCHANGED dirExists
          [] outcome = "no table" ->
                /\ orders' = [arity |-> 3, table_data |-> "None",
                              merged_pdf_path |-> "None", folder_path |-> "None"]
                /\ UNCHANGED dirExists
          [] outcome = "error after makedirs" ->
                /\ orders' = [arity |-> 2, table_data |-> "None",
                              merged_pdf_path |-> "None", folder_path |-> "unset"]
                /\ dirExists' = TRUE
          [] outcome = "no pdf" ->
                /\ orders' = [arity |-> 3, table_data |-> "empty",
                              merged_pdf_path |-> "None", folder_path |-> "path"]
                /\ dirExists' = TRUE
          [] outcome = "pdfs" ->
                /\ orders' = [arity |-> 3, table_data |-> "list",
                              merged_pdf_path |-> "path", folder_path |-> "path"]
                /\ dirExists' = TRUE
    /\ Continue("unpack")
    /\ UNCHANGED <<configured, reads, result, submitted, exhausted, page, data,
                   section, tableResult>>
    /\ UNCHANGED <<headerVars, tableVars, pdfVars, driverVars, solveVars>>

\* lines 316-325: unpack the tuple into three names, upload every order and
\* the merged file; upload_pdf_to_azure returns None when it fails
UnpackAndUpload ==
    /\ lpc = "unpack"
    /\ IF orders.arity # 3 \/ orders.table_data = "None"
       THEN /\ tableResult' = Raised
            /\ ReturnFromFrame(ReturnNone)
            /\ UNCHANGED data
       ELSE /\ \E uploaded \in BOOLEAN :
                data' = [data EXCEPT
                    !["judgement_orders"] =
                        ListSection(IF orders.table_data = "empty" THEN <<>>
                                    ELSE <<[order_date |-> "date",
                                            url |-> IF uploaded THEN "url" ELSE "None"]>>),
                    !["merge_pdf_url"] =
                        IF orders.merged_pdf_path = "None" \/ ~uploaded
                        THEN NoneSection ELSE ListSection(<<>>)]
            /\ Continue("cleanup")
            /\ UNCHANGED tableResult
    /\ UNCHANGED <<configured, reads, result, submitted, exhausted, page,
                   section, orders, dirExists>>
    /\ UNCHANGED <<headerVars, tableVars, pdfVars, driverVars, solveVars>>

\* lines 327-331 and 193: remove_dir, process_table returns the record and
\* retry_captcha_process returns it
RemoveDirAndReturn ==
    /\ lpc = "cleanup"
    /\ dirExists' = FALSE
    /\ tableResult' = ReturnRecord(data)
    /\ ReturnFromFrame(ReturnRecord(data))
    /\ UNCHANGED <<configured, reads, result, submitted, exhausted, page, data,
                   section, orders>>
    /\ UNCHANGED <<headerVars, tableVars, pdfVars, driverVars, solveVars>>

NextLookup ==
    \/ CallRetryCaptcha \/ CheckAttempts \/ AwaitImage \/ Solving \/ Refresh
    \/ ResumeAfterRetry \/ Submit \/ ProbeNotFound \/ WaitResults \/ LocateRow
    \/ ExtractSection \/ JudgementOrders \/ UnpackAndUpload \/ RemoveDirAndReturn

SpecLookup == InitLookup /\ [][NextLookup]_vars

(***************************************************************************)
(* The driver loop of __main__ (src/main.py 629-650)                       *)
(***************************************************************************)
FirstYear == 2025
LastYear  == 2020
MissLimit == 10

\* what process_case_details_by_diary_number hands to the driver: the record
\* of the case, or None; the lookup never returns False (see ProbeNotFound)
LookupReturns(d) == {NoResult, CaseRecord(d)}

\* Python truth value of the lookup's result
Truthy(r) == r.kind = "record"

InitDriver ==
    /\ dpc = "year" /\ from_year = FirstYear /\ current_diary_number = 0
    /\ continuous_empty_case = 0 /\ op = NoResult /\ sink = <<>> /\ yearLog = <<>>
    /\ HeaderOff /\ TableOff /\ PdfOff /\ LookupOff /\ SolveOff

\* lines 632-634: the outer loop enters a year
StartYear ==
    /\ dpc = "year"
    /\ from_year >= LastYear
    /\ current_diary_number' = 1
    /\ continuous_empty_case' = 0
    /\ yearLog' = <<>>
    /\ dpc' = "lookup"
    /\ UNCHANGED <<from_year, op, sink>>
    /\ UNCHANGED <<headerVars, tableVars, pdfVars, lookupVars, solveVars>>

\* line 632: the outer loop ends
Finish ==
    /\ dpc = "year"
    /\ from_year < LastYear
    /\ dpc' = "exit"
    /\ UNCHANGED <<from_year, current_diary_number, continuous_empty_case, op, sink, yearLog>>
    /\ UNCHANGED <<headerVars, tableVars, pdfVars, lookupVars, solveVars>>

\* line 637: one lookup
Lookup ==
    /\ dpc = "lookup"
    /\ current_diary_number <= MaxDiary
    /\ \E r \in LookupReturns(current_diary_number) :
        /\ Truthy(r) => Len(sink) < MaxCases
        /\ op' = r
        /\ yearLog' = Append(yearLog, r)
    /\ dpc' = "handle"
    /\ UNCHANGED <<from_year, current_diary_number, continuous_empty_case, sink>>
    /\ UNCHANGED <<headerVars, tableVars, pdfVars, lookupVars, solveVars>>

\* lines 639-648: the rest of the loop body
Handle ==
    /\ dpc = "handle"
    /\ IF continuous_empty_case = MissLimit
       THEN /\ dpc' = "break"
            /\ UNCHANGED <<current_diary_number, continuous_empty_case, sink>>
       ELSE /\ IF Truthy(op)
               THEN /\ sink' = Append(sink, [diary |-> op.diary, year |-> from_year])
                    /\ UNCHANGED continuous_empty_case
               ELSE /\ continuous_empty_case' = continuous_empty_case + 1
                    /\ UNCHANGED sink
            /\ current_diary_number' = current_diary_number + 1
            /\ dpc' = "lookup"
    /\ UNCHANGED <<from_year, op, yearLog>>
    /\ UNCHANGED <<headerVars, tableVars, pdfVars, lookupVars, solveVars>>

\* line 650
EndYear ==
    /\ dpc = "break"
    /\ from_year' = from_year - 1
    /\ dpc' = "year"
    /\ UNCHANGED <<current_diary_number, continuous_empty_case, op, sink, yearLog>>
    /\ UNCHANGED <<headerVars, tableVars, pdfVars, lookupVars, solveVars>>

NextDriver == StartYear \/ Finish \/ Lookup \/ Handle \/ EndYear

SpecDriver == InitDriver /\ [][NextDriver]_vars

(***************************************************************************)
(* CaptchaSolver: solve_expression (src/main.py 230-246) applied to a text *)
(* and the controller's use of its result (164-173)                        *)
(***************************************************************************)
SolveAlphabet == {"1", "2", "+", "-", "*", " "}

InitSolve ==
    /\ captchaText \in SeqsUpTo(SolveAlphabet, MaxText)
    /\ solved = ParseFailure /\ keysSent = <<>> /\ sstep = "input"
    /\ HeaderOff /\ TableOff /\ PdfOff /\ LookupOff /\ DriverOff

\* line 156
SolveExpression ==
    /\ sstep = "input"
    /\ solved' = solve_expression(captchaText)
    /\ sstep' = "solved"
    /\ UNCHANGED <<captchaText, keysSent>>
    /\ UNCHANGED <<headerVars, tableVars, pdfVars, lookupVars, driverVars>>

\* lines 164-173: an error text leads to the refresh, any other result is
\* typed into the answer field
ClassifyResult ==
    /\ sstep = "solved"
    /\ IF ~solved.ok
       THEN keysSent' = keysSent /\ sstep' = "refresh"
       ELSE keysSent' = Append(keysSent, solved.val) /\ sstep' = "submit"
    /\ UNCHANGED <<captchaText, solved>>
    /\ UNCHANGED <<headerVars, tableVars, pdfVars, lookupVars, driverVars>>

NextSolve == SolveExpression \/ ClassifyResult

SpecSolve == InitSolve /\ [][NextSolve]_vars

(***************************************************************************)
(* C1: in one run of retry_captcha_process with max_attempts = N, when     *)
(* every read of the CAPTCHA is a parse failure, exactly N reads are made  *)
(* before the controller is exhausted, and there is never an (N+1)-th read.*)
(***************************************************************************)
C1_ExactlyMaxAttemptsReads ==
    /\ (reads = 0 \/ ~result.ok) => reads <= configured
    /\ exhausted => reads = configured

(***************************************************************************)
(* C2: when a later attempt, after one or more parse failures, is solved   *)
(* and the case is found, retry_captcha_process returns that case's record *)
(* to its caller, as it does when the first attempt is solved.             *)
(***************************************************************************)
C2_RetriedLookupReturnsRecord ==
    (lpc = "returned" /\ tableResult.kind = "record") => retval = tableResult

(***************************************************************************)
(* C3: the inner loop of a year ends exactly when 10 consecutive lookups   *)
(* returned no result: a successful lookup resets the count of misses, the *)
(* loop does not end before the 10th consecutive miss, and no lookup is    *)
(* started once the 10th consecutive miss is recorded.                     *)
(***************************************************************************)
\* number of lookups without result at the end of the year's log
RECURSIVE TrailingMisses(_)
TrailingMisses(log) ==
    IF log = <<>> \/ Truthy(log[Len(log)]) THEN 0
    ELSE 1 + TrailingMisses(SubSeq(log, 1, Len(log) - 1))

C3_StopsAtTenthConsecutiveMiss ==
    /\ dpc = "lookup" => continuous_empty_case = TrailingMisses(yearLog)
    /\ dpc = "lookup" => TrailingMisses(yearLog) < MissLimit
    /\ dpc = "break" => TrailingMisses(yearLog) = MissLimit

(***************************************************************************)
(* C4: every record a lookup of the driver loop returns is inserted, with  *)
(* its year, into the record sink before the next lookup starts and before *)
(* the year's loop ends.                                                   *)
(***************************************************************************)
C4_EveryReturnedRecordInserted ==
    dpc \in {"lookup", "break"} =>
        \A i \in DOMAIN yearLog :
            Truthy(yearLog[i]) =>
                [diary |-> yearLog[i].diary, year |-> from_year] \in Range(sink)

(***************************************************************************)
(* C5: when the page shows "not found" after the answer is submitted, the  *)
(* lookup returns False, the no-result signal, and not the None of an      *)
(* error.                                                                  *)
(***************************************************************************)
C5_NotFoundReturnsFalse ==
    (lpc = "returned" /\ page = "notfound") => retval = ReturnFalse

(***************************************************************************)
(* C6: for a located case, whichever single section fails (a table section *)
(* or the judgment-orders step), process_table still returns a record, and *)
(* the sections hold the values extracted.                                 *)
(***************************************************************************)
C6_SectionFailureKeepsRecord ==
    (lpc = "returned" /\ data["details"].set) =>
        /\ tableResult.kind = "record"
        /\ \A s \in Range(Sections) : tableResult.data[s] = data[s]

(***************************************************************************)
(* C7: after a case lookup has returned, on every exit path, the working   *)
(* directory made for the PDFs no longer exists.                           *)
(***************************************************************************)
C7_WorkingDirRemoved == lpc = "returned" => ~dirExists

(***************************************************************************)
(* C8: whatever the order in which the concurrent downloads finish or      *)
(* fail, the documents sorted, merged and returned are in ascending order  *)
(* of the date parsed from the file name (no parsable date counts as the   *)
(* minimum date, so such files come first), and documents with equal dates *)
(* keep the order of their links.                                          *)
(***************************************************************************)
\* a date <<year, month, day>> as one number
DateOrdinal(d) == d[1] * 10000 + d[2] * 100 + d[3]

\* the documents of docs are in ascending date order, link order among equals
InDateThenLinkOrder(docs) ==
    \A a, b \in DOMAIN docs :
        a < b =>
            LET da == DateOrdinal(extract_date_from_filename(docs[a]))
                db == DateOrdinal(extract_date_from_filename(docs[b]))
            IN  da < db \/ (da = db /\ docs[a].link < docs[b].link)

C8_DateOrderWhateverCompletion ==
    pstep = "returned" =>
        /\ InDateThenLinkOrder(pdf_files)
        /\ Range(pdf_files) = {results[i] : i \in DOMAIN results} \ {NoPath}
        /\ InDateThenLinkOrder(merged)
        /\ Range(merged) \subseteq Range(pdf_files)
        /\ Len(table_data) = Len(pdf_files)
        /\ \A k \in DOMAIN pdf_files : table_data[k].url = pdf_files[k]

\* position of link i in the order of completion
FinishPosition(i) == CHOOSE k \in DOMAIN finishOrder : finishOrder[k] = i

\* returned documents of which two have the same date and finished in the
\* reverse of their link order, one without date finished last, and one
\* download failed
C8_Witness ==
    /\ pstep = "returned"
    /\ \E i \in DOMAIN links : links[i] # NoLink /\ results[i] = NoPath
    /\ \E a, b \in DOMAIN pdf_files :
        /\ a < b
        /\ extract_date_from_filename(pdf_files[a]) = extract_date_from_filename(pdf_files[b])
        /\ extract_date_from_filename(pdf_files[a]) # DatetimeMin
        /\ FinishPosition(pdf_files[a].link) > FinishPosition(pdf_files[b].link)
    /\ \E a \in DOMAIN pdf_files :
        /\ extract_date_from_filename(pdf_files[a]) = DatetimeMin
        /\ FinishPosition(pdf_files[a].link) = Len(finishOrder)
    /\ Len(merged) < Len(pdf_files)

(***************************************************************************)
(* C9: clean_header is idempotent: for every label s,                      *)
(* clean_header(clean_header(s)) = clean_header(s).                        *)
(***************************************************************************)
C9_Idempotent == hstep = "twice" => twice = once

(***************************************************************************)
(* C10: when some header cell normalizes to a non-empty identifier, every  *)
(* record of process_table_data has exactly one entry per cleaned header   *)
(* cell, the header cells that normalize to empty being filtered out       *)
(* first; entry i holds the row's i-th cell or null when the row is        *)
(* shorter, and all records of the table share the same key set.           *)
(***************************************************************************)
\* the cleaned header cells that are not empty, in order
RECURSIVE NonEmptyOnly(_)
NonEmptyOnly(hs) ==
    IF hs = <<>> THEN <<>>
    ELSE IF Head(hs) = <<>> THEN NonEmptyOnly(Tail(hs))
         ELSE <<Head(hs)>> \o NonEmptyOnly(Tail(hs))

\* the rows that produce a record
RECURSIVE NonEmptyRows(_)
NonEmptyRows(rows) ==
    IF rows = <<>> THEN <<>>
    ELSE IF Head(rows) = <<>> THEN NonEmptyRows(Tail(rows))
         ELSE <<Head(rows)>> \o NonEmptyRows(Tail(rows))

C10_OneEntryPerHeader ==
    (tstep = "done" /\ ~table.missing /\ NonEmptyOnly(clean_headers(table.header)) # <<>>) =>
        LET cleaned == clean_headers(table.header)
            keys == NonEmptyOnly(cleaned)
            rows == NonEmptyRows(table.rows)
        IN  /\ Len(records) = Len(rows)
            /\ \A k \in DOMAIN records :
                /\ DOMAIN records[k] = Range(keys)
                /\ Cardinality(DOMAIN records[k]) = Len(keys)
                /\ \A i \in DOMAIN cleaned :
                       cleaned[i] # <<>> =>
                           records[k][cleaned[i]] =
                               IF i <= Len(rows[k]) /\ rows[k][i] # <<>>
                               THEN Strip(rows[k][i]) ELSE NoneValue

(***************************************************************************)
(* C11: process_table_data produces no record for a row that has no        *)
(* non-empty cell after trimming: the number of records equals the number  *)
(* of rows that have at least one non-blank cell.                          *)
(***************************************************************************)
\* the row has a cell that is not empty after trimming
HasNonBlankCell(row) == \E i \in DOMAIN row : Strip(row[i]) # <<>>

RECURSIVE CountNonBlankRows(_)
CountNonBlankRows(rows) ==
    IF rows = <<>> THEN 0
    ELSE (IF HasNonBlankCell(Head(rows)) THEN 1 ELSE 0) + CountNonBlankRows(Tail(rows))

C11_BlankRowsGiveNoRecord ==
    (tstep = "done" /\ ~table.missing /\ table.header # <<>>) =>
        Len(records) = CountNonBlankRows(table.rows)

(***************************************************************************)
(* C12: solve_expression splits the text at the first occurrence of '+'    *)
(* or '-' into two operands; when both parse as integers it returns        *)
(* operand1 + operand2 for '+' and operand1 - operand2 for '-', and for    *)
(* every other text a parse-failure value, which the controller never      *)
(* submits.                                                                *)
(***************************************************************************)
\* positions of the operator characters in a text
OperatorPositions(s) == {i \in DOMAIN s : s[i] \in {"+", "-"}}

\* the result the claim describes: one split at the first '+' or '-'
SplitAtFirstOperator(s) ==
    IF OperatorPositions(s) = {} THEN ParseFailure
    ELSE LET i == CHOOSE k \in OperatorPositions(s) :
                      \A j \in OperatorPositions(s) : k <= j
             a == ParseInt(SubSeq(s, 1, i - 1))
             b == ParseInt(SubSeq(s, i + 1, Len(s)))
         IN  IF a.ok /\ b.ok
             THEN [ok |-> TRUE, val |-> IF s[i] = "+" THEN a.val + b.val ELSE a.val - b.val]
             ELSE ParseFailure

C12_SplitsAtFirstOperator ==
    sstep \in {"refresh", "submit"} =>
        /\ solved = SplitAtFirstOperator(captchaText)
        /\ ~solved.ok => keysSent = <<>>

(***************************************************************************)
(* C12, amended: solve_expression splits the text at every '+' when it     *)
(* contains a '+', otherwise at every '-'; when this gives exactly two     *)
(* pieces and both parse as integers (blanks around and a sign in front    *)
(* allowed) it returns operand1 + operand2 resp. operand1 - operand2, and  *)
(* for every other text the parse-failure value; the controller refreshes  *)
(* on a parse failure and types nothing, and types the integer otherwise.  *)
(***************************************************************************)
C12_SplitsAtEveryOperator ==
    sstep \in {"refresh", "submit"} =>
        LET sep == IF "+" \in Range(captchaText) THEN "+" ELSE "-"
            at  == {i \in DOMAIN captchaText : captchaText[i] = sep}
            i   == CHOOSE k \in at : TRUE
            a   == ParseInt(SubSeq(captchaText, 1, i - 1))
            b   == ParseInt(SubSeq(captchaText, i + 1, Len(captchaText)))
        IN  IF Cardinality(at) = 1 /\ a.ok /\ b.ok
            THEN /\ solved = [ok |-> TRUE,
                              val |-> IF sep = "+" THEN a.val + b.val ELSE a.val - b.val]
                 /\ sstep = "submit"
                 /\ keysSent = <<solved.val>>
            ELSE /\ solved = ParseFailure
                 /\ sstep = "refresh"
                 /\ keysSent = <<>>

\* a text with a negative first operand and '+' has been solved and typed
C12_Witness ==
    /\ sstep = "submit"
    /\ captchaText # <<>> /\ captchaText[1] = "-"
    /\ "+" \in Range(captchaText)
    /\ solved.ok /\ keysSent = <<solved.val>>

(***************************************************************************)
(* C13: in the section pipeline, for a source row with at least one       *)
(* non-blank cell, every non-blank cell is recorded under the header of    *)
(* its own column position and every blank cell gives null under its own   *)
(* column's header (a blank cell in the middle of a row does not shift the *)
(* following cells), and no record value is the empty string.              *)
(***************************************************************************)
\* every column has a th cell with a name, and no two columns share a name
NamedColumns(t) ==
    /\ t.found /\ t.th # <<>>
    /\ \A i \in DOMAIN t.th : clean_header(Strip(t.th[i])) # <<>>
    /\ \A i, j \in DOMAIN t.th :
           clean_header(Strip(t.th[i])) = clean_header(Strip(t.th[j])) => i = j

C13_CellsKeepTheirColumn ==
    (tstep = "done" /\ NamedColumns(source)) =>
        LET kept == SelectSeq(source.rows, HasNonBlankCell)
        IN  /\ Len(records) = Len(kept)
            /\ \A k \in DOMAIN kept : \A i \in DOMAIN source.th :
                   records[k][clean_header(Strip(source.th[i]))] =
                       IF i <= Len(kept[k]) /\ Strip(kept[k][i]) # <<>>
                       THEN Strip(kept[k][i])
                       ELSE NoneValue
            /\ \A k \in DOMAIN records : \A h \in DOMAIN records[k] :
                   records[k][h] # <<>>

====
